---- MODULE Spec2Model ----
(***************************************************************************)
(* Model of the climate / natural-disaster data pipeline                   *)
(* (climate_disasters_pipeline.py) and of the dashboard pass that drives   *)
(* it (app.py).                                                            *)
(*                                                                         *)
(* Data representation                                                     *)
(*   - A cell of a table is a record [k, n, d, s]: k is the kind ("nan",   *)
(*     "nat", "num", "dt", "str"); a number is the rational n/d; a parsed  *)
(*     timestamp "dt" keeps its calendar year in n; the text of a string   *)
(*     is its form s together with a number n ("date" with the year the    *)
(*     text denotes, "#" with the number the text spells, any other form   *)
(*     is free text).                                                      *)
(*   - Column names of the disaster source tables are sequences of         *)
(*     characters, because the column resolver lowercases them and looks   *)
(*     for substrings. Column names of every other table are only ever     *)
(*     compared for equality and are plain strings.                        *)
(*   - The dtype of a column of a table read from a CSV file is derived    *)
(*     from its cells as read_csv derives it.                              *)
(***************************************************************************)
EXTENDS Integers, Sequences, FiniteSets, TLC

VARIABLES
    pc,                  \* position of the modelled pass
    df,                  \* argument of _guess_disaster_type_column: <<[name, dtype]>>
    type_col,            \* its return value
    dis_bar,             \* Baris_Dincer_Disasters_Cleaned.csv as read
    dis_shrey,           \* Shreyansh_Dangi_Disasters_Cleaned.csv as read
    temps_gia,           \* Gia temperature file as read
    temps_berk,          \* Berkeley Earth temperature file as read
    temps_josep,         \* Josep Ferrer temperature file as read
    temps_annual,        \* build_merged_dataset: temps_annual
    disasters_all,       \* load_disaster_data: disasters_all
    disasters_per_year,  \* load_disaster_data / build_merged_dataset: disasters_per_year
    merged,              \* build_merged_dataset: merged
    app_disasters_per_year, \* app.py line 15: first name of the unpacking
    app_merged,          \* app.py line 15: second name of the unpacking
    app_disasters_all,   \* app.py line 15: third name of the unpacking
    summary_stats,       \* result of compute_disaster_summary
    type_counts          \* result of disaster_type_counts

vars == <<pc, df, type_col, dis_bar, dis_shrey, temps_gia, temps_berk, temps_josep,
          temps_annual, disasters_all, disasters_per_year, merged,
          app_disasters_per_year, app_merged, app_disasters_all,
          summary_stats, type_counts>>

-----------------------------------------------------------------------------
(* Cells *)

NaN == [k |-> "nan", n |-> 0, d |-> 1, s |-> ""]
NaT == [k |-> "nat", n |-> 0, d |-> 1, s |-> ""]
Num(v) == [k |-> "num", n |-> v, d |-> 1, s |-> ""]
Rat(a, b) == [k |-> "num", n |-> a, d |-> b, s |-> ""]
Dt(y) == [k |-> "dt", n |-> y, d |-> 1, s |-> ""]
Str(form, v) == [k |-> "str", n |-> v, d |-> 1, s |-> form]
Text(form) == Str(form, 0)
DateText(y) == Str("date", y)

IsNA(c) == c.k \in {"nan", "nat"}

RECURSIVE GCD(_, _)
GCD(a, b) == IF b = 0 THEN a ELSE GCD(b, a % b)

Abs(a) == IF a < 0 THEN -a ELSE a

\* the rational a/b in lowest terms, b > 0
Reduce(a, b) ==
    LET g == GCD(Abs(a), b)
    IN  IF g = 0 THEN Rat(0, 1) ELSE Rat(a \div g, b \div g)

RatLeq(x, y) == x.n * y.d <= y.n * x.d

-----------------------------------------------------------------------------
(* Sequence helpers *)

RECURSIVE MapSeq(_, _)
MapSeq(F(_), sq) ==
    IF sq = <<>> THEN <<>> ELSE <<F(Head(sq))>> \o MapSeq(F, Tail(sq))

Range(sq) == {sq[i] : i \in 1..Len(sq)}

\* the injective sequences (orderings) of the elements of a finite set
Orderings(S) ==
    {f \in [1..Cardinality(S) -> S] : \A i, j \in 1..Cardinality(S) : f[i] = f[j] => i = j}

\* the integers of a finite set in ascending order
SortedSeq(S) ==
    CHOOSE f \in Orderings(S) : \A i, j \in 1..Cardinality(S) : i < j => f[i] < f[j]

-----------------------------------------------------------------------------
(* Column names of the disaster tables, as character sequences *)

N_disaster_type == <<"d","i","s","a","s","t","e","r","_","t","y","p","e">>
N_DisasterType == <<"D","i","s","a","s","t","e","r","T","y","p","e">>
N_Disaster_Type == <<"D","i","s","a","s","t","e","r","_","T","y","p","e">>
N_Disaster_Type_Spaced == <<"D","i","s","a","s","t","e","r"," ","T","y","p","e">>
N_Hazard_Type == <<"H","a","z","a","r","d","_","T","y","p","e">>
N_Disaster_Subtype == <<"D","i","s","a","s","t","e","r","_","S","u","b","t","y","p","e">>
N_Year == <<"Y","e","a","r">>
N_EventDate == <<"E","v","e","n","t","D","a","t","e">>
N_Date == <<"D","a","t","e">>
N_Var2 == <<"V","a","r","2">>
N_Var3 == <<"V","a","r","3">>
N_Var4 == <<"V","a","r","4">>
N_Var5 == <<"V","a","r","5">>
N_year == <<"y","e","a","r">>
N_event_date == <<"e","v","e","n","t","_","d","a","t","e">>

UpperCase == <<"A","B","C","D","E","F","G","H","I","J","K","L","M",
               "N","O","P","Q","R","S","T","U","V","W","X","Y","Z">>
LowerCase == <<"a","b","c","d","e","f","g","h","i","j","k","l","m",
               "n","o","p","q","r","s","t","u","v","w","x","y","z">>

\* str.lower(), one character
LowerChar(c) ==
    IF \E i \in 1..26 : UpperCase[i] = c
    THEN LowerCase[CHOOSE i \in 1..26 : UpperCase[i] = c]
    ELSE c

\* str.lower()
Lower(name) == [i \in 1..Len(name) |-> LowerChar(name[i])]

NotSpace(c) == c # " "

\* str.replace(" ", "")
NoSpaces(name) == SelectSeq(name, NotSpace)

\* k in name (substring test)
Contains(name, k) ==
    \E i \in 0..(Len(name) - Len(k)) : SubSeq(name, i + 1, i + Len(k)) = k

-----------------------------------------------------------------------------
(* _guess_disaster_type_column *)

ColumnNames(frame) == [i \in 1..Len(frame) |-> frame[i].name]

IsObject(col) == col.dtype = "object"

\* df.select_dtypes(include="object").columns
ObjectCols(frame) == ColumnNames(SelectSeq(frame, IsObject))

\* the exact names tried first, in order (line 44)
AliasesSubtypeFirst ==
    <<N_Disaster_Subtype, N_disaster_type, N_DisasterType, N_Disaster_Type,
      N_Disaster_Type_Spaced, N_Hazard_Type>>

Aliases ==
    <<N_disaster_type, N_DisasterType, N_Disaster_Type, N_Disaster_Type_Spaced,
      N_Hazard_Type>>

\* line 49
Keywords ==
    { <<"d","i","s","a","s","t","e","r">>, <<"h","a","z","a","r","d">>,
      <<"e","v","e","n","t","t","y","p","e">>,
      <<"e","v","e","n","t","_","t","y","p","e">>, <<"t","y","p","e">> }

\* line 58
DateLikeWords ==
    { <<"y","e","a","r">>, <<"d","a","t","e">>, <<"t","i","m","e">>, <<"i","d">> }

\* lines 51-52
HasKeyword(name) == \E k \in Keywords : Contains(NoSpaces(Lower(name)), k)

\* lines 57-58
LooksLikeDate(name) == \E w \in DateLikeWords : Contains(Lower(name), w)

NotDateLike(name) == ~LooksLikeDate(name)

\* a variant that never takes the "first plain string column" step
GuessWithoutPlainStep(frame) ==
    LET names == ColumnNames(frame)
        object_cols == ObjectCols(frame)
        present == SelectSeq(Aliases, LAMBDA a : a \in Range(names))
        keyed == SelectSeq(object_cols, HasKeyword)
    IN  IF object_cols = <<>> THEN names[Len(names)]
        ELSE IF present # <<>> THEN Head(present)
        ELSE IF keyed # <<>> THEN Head(keyed)
        ELSE names[Len(names)]

\* lines 30-63; frame has at least one column
GuessDisasterTypeColumn(frame) ==
    LET names == ColumnNames(frame)
        object_cols == ObjectCols(frame)
        present == SelectSeq(Aliases, LAMBDA a : a \in Range(names))
        keyed == SelectSeq(object_cols, HasKeyword)
        plain == SelectSeq(object_cols, NotDateLike)
    IN  IF object_cols = <<>> THEN names[Len(names)]
        ELSE IF present # <<>> THEN Head(present)
        ELSE IF keyed # <<>> THEN Head(keyed)
        ELSE IF plain # <<>> THEN Head(plain)
        ELSE names[Len(names)]

-----------------------------------------------------------------------------
(* Tables as read from a CSV file: [names, rows], a row being the sequence  *)
(* of its cells in column order                                             *)

HasCol(t, name) == name \in Range(t.names)

ColIndex(names, name) == CHOOSE i \in 1..Len(names) : names[i] = name

CellOf(t, row, name) == row[ColIndex(t.names, name)]

\* read_csv: a column is object when it holds text, or when the file has no
\* data row; otherwise it is numeric (an all-missing column is float)
DType(t, i) ==
    IF t.rows = <<>> \/ \E j \in 1..Len(t.rows) : t.rows[j][i].k = "str"
    THEN "object"
    ELSE "number"

Frame(t) == [i \in 1..Len(t.names) |-> [name |-> t.names[i], dtype |-> DType(t, i)]]

NotNumber(col) == col.dtype # "number"

IsNumber(col) == col.dtype = "number"

\* select_dtypes(exclude="number").columns[0]
FirstNonNumeric(frame) == Head(SelectSeq(frame, NotNumber)).name

-----------------------------------------------------------------------------
(* Cell conversions *)

\* pd.to_numeric(errors="coerce")
ToNumeric(c) ==
    IF c.k = "num" THEN c
    ELSE IF c.k = "str" /\ c.s = "#" THEN Num(c.n)
    ELSE NaN

\* a variant of the date parser that reads text it cannot parse as a default date
ToDatetimeDefaulting(c) ==
    IF c.k = "str" /\ c.s = "date" THEN Dt(c.n)
    ELSE IF c.k = "str" THEN Dt(1900)
    ELSE IF c.k = "dt" THEN c
    ELSE IF c.k = "num" THEN Dt(1970)
    ELSE NaT

\* pd.to_datetime(errors="coerce"); a bare number is nanoseconds since 1970
ToDatetime(c) ==
    IF c.k = "str" /\ c.s = "date" THEN Dt(c.n)
    ELSE IF c.k = "dt" THEN c
    ELSE IF c.k = "num" THEN Dt(1970)
    ELSE NaT

\* a variant of .dt.year that is off by one
DtYearOffByOne(c) == IF c.k = "dt" THEN Num(c.n + 1) ELSE NaN

\* .dt.year
DtYear(c) == IF c.k = "dt" THEN Num(c.n) ELSE NaN

\* .astype(str), one cell
AsStr(c) ==
    IF c.k = "str" THEN c
    ELSE IF c.k = "nan" THEN Text("nan")
    ELSE IF c.k = "nat" THEN Text("NaT")
    ELSE IF c.k = "dt" THEN DateText(c.n)
    ELSE Str("#", c.n)

\* .astype(int), one non-missing numeric cell
AsInt(c) == c.n \div c.d

-----------------------------------------------------------------------------
(* load_disaster_data *)

\* lines 258-265
MinYear == 1900
MaxYear == 2025

\* lines 209-222 / 234-248: the row's year and event_date cells
YearAndDate(t, row, dateName) ==
    IF HasCol(t, N_Year)
    THEN [year |-> ToNumeric(CellOf(t, row, N_Year)),
          event_date |-> IF HasCol(t, dateName)
                         THEN ToDatetime(CellOf(t, row, dateName))
                         ELSE NaT]
    ELSE LET date_col == IF HasCol(t, dateName) THEN dateName
                         ELSE FirstNonNumeric(Frame(t))
             event_date == ToDatetime(CellOf(t, row, date_col))
         IN  [year |-> DtYear(event_date), event_date |-> event_date]

\* the frame _guess_disaster_type_column sees: the file's columns followed by
\* the two columns the loader has just added, in the order it added them
LoaderFrame(t) ==
    Frame(t) \o
        (IF HasCol(t, N_Year)
         THEN <<[name |-> N_year, dtype |-> "number"],
                [name |-> N_event_date, dtype |-> "datetime"]>>
         ELSE <<[name |-> N_event_date, dtype |-> "datetime"],
                [name |-> N_year, dtype |-> "number"]>>)

\* the row's cell in the resolved type column (line 226, before astype)
TypeCell(t, row, dateName) ==
    LET type_col_name == GuessDisasterTypeColumn(LoaderFrame(t))
        yd == YearAndDate(t, row, dateName)
    IN  IF type_col_name = N_year /\ ~HasCol(t, N_year) THEN yd.year
        ELSE IF type_col_name = N_event_date /\ ~HasCol(t, N_event_date) THEN yd.event_date
        ELSE CellOf(t, row, type_col_name)

\* lines 206-228 / 231-253: one source in the standard four columns
StdSource(t, dateName, tag) ==
    [j \in 1..Len(t.rows) |->
        LET yd == YearAndDate(t, t.rows[j], dateName)
        IN  [event_date |-> yd.event_date,
             year |-> yd.year,
             disaster_type |-> AsStr(TypeCell(t, t.rows[j], dateName)),
             source |-> tag]]

\* dropna(subset=["year", "disaster_type"]), one row
HasYearAndType(r) == ~IsNA(r.year) /\ ~IsNA(r.disaster_type)

\* line 260
YearToInt(r) == [r EXCEPT !.year = AsInt(r.year)]

\* a variant of the range test that lets every year through
InRangeAlways(y) == TRUE

\* lines 263-265 and 297-302
InRange(y) == y >= MinYear /\ y <= MaxYear

RowInRange(r) == InRange(r.year)

\* a variant of the grouping that counts every year once
GroupBySizeOnce(rows) ==
    LET years == {rows[i].year : i \in 1..Len(rows)}
        sorted == SortedSeq(years)
    IN  [i \in 1..Cardinality(years) |->
            [year |-> sorted[i], disaster_count |-> Num(1)]]

\* lines 268-273: groupby("year").size(), sorted by year
GroupBySize(rows) ==
    LET years == {rows[i].year : i \in 1..Len(rows)}
        sorted == SortedSeq(years)
    IN  [i \in 1..Cardinality(years) |->
            [year |-> sorted[i],
             disaster_count |->
                Num(Cardinality({j \in 1..Len(rows) : rows[j].year = sorted[i]}))]]

\* lines 255-275
LoadDisasterData(bar, shrey) ==
    LET concat == StdSource(bar, N_EventDate, "Baris_Dincer")
                  \o StdSource(shrey, N_Date, "Shreyansh_Dangi")
        kept == MapSeq(YearToInt, SelectSeq(concat, HasYearAndType))
        all_rows == SelectSeq(kept, RowInRange)
    IN  [disasters_all |->
            [cols |-> <<"event_date", "year", "disaster_type", "source">>,
             rows |-> all_rows],
         disasters_per_year |->
            [cols |-> <<"year", "disaster_count">>, rows |-> GroupBySize(all_rows)]]

-----------------------------------------------------------------------------
(* load_temperature_data *)

RECURSIVE RatSum(_)
RatSum(cells) ==
    IF cells = <<>> THEN Rat(0, 1)
    ELSE LET x == Head(cells)
             y == RatSum(Tail(cells))
         IN  Reduce(x.n * y.d + y.n * x.d, x.d * y.d)

\* the arithmetic mean of a non-empty sequence of numeric cells
RatMean(cells) ==
    LET t == RatSum(cells) IN Reduce(t.n, t.d * Len(cells))

\* line 154: C * 9 / 5 + 32, a missing value staying missing
CtoF(c) == IF IsNA(c) THEN NaN ELSE Reduce(9 * c.n + 160 * c.d, 5 * c.d)

\* lines 104-111
StdGia(t) ==
    [j \in 1..Len(t.rows) |->
        [year |-> CellOf(t, t.rows[j], "Year"),
         TempF |-> CellOf(t, t.rows[j], "Average_Fahrenheit_Temperature"),
         source |-> "Gia_Bach_Nguyen"]]

\* lines 117-124
BerkDateCol(t) ==
    IF HasCol(t, "dt") THEN "dt"
    ELSE IF HasCol(t, "Date") THEN "Date"
    ELSE FirstNonNumeric(Frame(t))

\* lines 130-136
TempCandidates ==
    <<"LandAndOceanAverageTemperature", "LandAverageTemperature",
      "AverageTemperature", "TemperatureC", "Temperature">>

\* the Berkeley frame once "date" and "year" have been added (lines 126-127)
BerkFrame(t) ==
    Frame(t) \o <<[name |-> "date", dtype |-> "datetime"],
                  [name |-> "year", dtype |-> "number"]>>

\* lines 137-151; the added "year" column is numeric, so a column is always found
BerkTempCol(t) ==
    LET present == SelectSeq(TempCandidates, LAMBDA c : HasCol(t, c))
    IN  IF present # <<>> THEN Head(present)
        ELSE Head(SelectSeq(BerkFrame(t), IsNumber)).name

\* lines 114-155
StdBerk(t) ==
    [j \in 1..Len(t.rows) |->
        LET date == ToDatetime(CellOf(t, t.rows[j], BerkDateCol(t)))
            year == DtYear(date)
            temp_col == BerkTempCol(t)
            celsius == IF temp_col = "year" /\ ~HasCol(t, "year") THEN year
                       ELSE CellOf(t, t.rows[j], temp_col)
        IN  [year |-> year, TempF |-> CtoF(celsius), source |-> "Berkeley_Earth"]]

\* lines 159-165
StdJosep(t) ==
    [j \in 1..Len(t.rows) |->
        [year |-> DtYear(ToDatetime(CellOf(t, t.rows[j], "EventDate"))),
         TempF |-> ToNumeric(CellOf(t, t.rows[j], "TemperatureFahrenheit")),
         source |-> "Josep_Ferrer"]]

\* dropna(subset=["year", "TempF"]), one row
HasYearAndTemp(r) == ~IsNA(r.year) /\ ~IsNA(r.TempF)

\* lines 180-184: groupby("year")["TempF"].mean(), sorted by year
GroupByMean(rows) ==
    LET years == {rows[i].year : i \in 1..Len(rows)}
        sorted == SortedSeq(years)
        TempOf(r) == r.TempF
    IN  [i \in 1..Cardinality(years) |->
            [year |-> sorted[i],
             TempF |-> RatMean(MapSeq(TempOf,
                          SelectSeq(rows, LAMBDA r : r.year = sorted[i])))]]

\* lines 88-186
LoadTemperatureData(gia, berk, josep) ==
    LET concat == StdGia(gia) \o StdBerk(berk) \o StdJosep(josep)
        all_rows == MapSeq(YearToInt, SelectSeq(concat, HasYearAndTemp))
    IN  [temps_all |-> [cols |-> <<"year", "TempF", "source">>, rows |-> all_rows],
         temps_annual |-> [cols |-> <<"year", "TempF">>, rows |-> GroupByMean(all_rows)]]

-----------------------------------------------------------------------------
(* build_merged_dataset *)

\* lines 297-302
FilterRange(t) == [t EXCEPT !.rows = SelectSeq(t.rows, RowInRange)]

YearsOf(t) == {t.rows[i].year : i \in 1..Len(t.rows)}

RowOfYear(t, y) == t.rows[CHOOSE i \in 1..Len(t.rows) : t.rows[i].year = y]

\* a variant of the merge that keeps the years of the left table only
LeftMerge(temps, counts) ==
    LET sorted == SortedSeq(YearsOf(temps))
    IN  [cols |-> <<"year", "TempF", "disaster_count">>,
         rows |-> [i \in 1..Len(sorted) |->
            [year |-> sorted[i],
             TempF |-> RowOfYear(temps, sorted[i]).TempF,
             disaster_count |->
                IF sorted[i] \in YearsOf(counts)
                THEN RowOfYear(counts, sorted[i]).disaster_count
                ELSE NaN]]]

\* lines 304-306: pd.merge(on="year", how="outer").sort_values("year"); both
\* tables hold each year once
OuterMerge(temps, counts) ==
    LET sorted == SortedSeq(YearsOf(temps) \cup YearsOf(counts))
    IN  [cols |-> <<"year", "TempF", "disaster_count">>,
         rows |-> [i \in 1..Len(sorted) |->
            [year |-> sorted[i],
             TempF |->
                IF sorted[i] \in YearsOf(temps)
                THEN RowOfYear(temps, sorted[i]).TempF
                ELSE NaN,
             disaster_count |->
                IF sorted[i] \in YearsOf(counts)
                THEN RowOfYear(counts, sorted[i]).disaster_count
                ELSE NaN]]]

\* lines 296-308, on the two loaders' annual tables; the returned tuple
BuildMerged(annual_temps, per_year) ==
    LET t == FilterRange(annual_temps)
        c == FilterRange(per_year)
    IN  <<t, c, OuterMerge(t, c)>>

-----------------------------------------------------------------------------
(* disaster_type_counts *)

\* line 319
TypeCountsRaises(t) == "disaster_type" \notin Range(t.cols)

\* lines 323-327: value_counts() of the labels as strings, in descending order
\* of count; the order among equal counts is not fixed
TypeCountResults(t) ==
    LET labels == {AsStr(t.rows[i].disaster_type) : i \in 1..Len(t.rows)}
        CountOf(l) ==
            Cardinality({i \in 1..Len(t.rows) : AsStr(t.rows[i].disaster_type) = l})
        entries == {[disaster_type |-> l, count |-> CountOf(l)] : l \in labels}
    IN  {f \in Orderings(entries) :
            \A i, j \in 1..Cardinality(entries) : i < j => f[i].count >= f[j].count}

-----------------------------------------------------------------------------
(* compute_disaster_summary *)

\* line 364
SummaryRaises(t) == "disaster_count" \notin Range(t.cols)

CountCell(r) == r.disaster_count

PresentCount(r) == ~IsNA(r.disaster_count)

\* line 367
Counts(t) == MapSeq(CountCell, SelectSeq(t.rows, PresentCount))

\* the cells of a sequence in ascending order
SortCells(cells) ==
    LET n == Len(cells)
        p == CHOOSE q \in Orderings(1..n) :
                \A i, j \in 1..n : i < j => RatLeq(cells[q[i]], cells[q[j]])
    IN  [i \in 1..n |-> cells[p[i]]]

Median(cells) ==
    LET n == Len(cells)
        sorted == SortCells(cells)
    IN  IF n % 2 = 1 THEN sorted[(n + 1) \div 2]
        ELSE RatMean(<<sorted[n \div 2], sorted[n \div 2 + 1]>>)

\* the sample variance (divisor n - 1); not a number for a single value
SampleVariance(cells) ==
    LET n == Len(cells)
        m == RatMean(cells)
        SqDev(c) == LET dv == Reduce(c.n * m.d - m.n * c.d, c.d * m.d)
                    IN  Reduce(dv.n * dv.n, dv.d * dv.d)
        ss == RatSum(MapSeq(SqDev, cells))
    IN  IF n = 1 THEN NaN ELSE Reduce(ss.n, ss.d * (n - 1))

\* lines 379-386; the field std holds the square of the standard deviation
Statistics(counts) ==
    [min |-> SortCells(counts)[1],
     max |-> SortCells(counts)[Len(counts)],
     mean |-> RatMean(counts),
     median |-> Median(counts),
     std |-> SampleVariance(counts),
     years_with_data |-> Len(counts)]

\* a variant without the guard for an empty series: pandas answers NaN
SummaryWithoutEmptyGuard(t) ==
    IF Counts(t) = <<>>
    THEN [min |-> NaN, max |-> NaN, mean |-> NaN, median |-> NaN, std |-> NaN,
          years_with_data |-> 0]
    ELSE Statistics(Counts(t))

\* lines 367-386, for a table that has the column
ComputeDisasterSummary(t) ==
    IF Counts(t) = <<>>
    THEN [min |-> Num(0), max |-> Num(0), mean |-> Num(0), median |-> Num(0),
          std |-> Num(0), years_with_data |-> 0]
    ELSE Statistics(Counts(t))

-----------------------------------------------------------------------------
(* Bounds and input families *)

MaxCols == 3          \* columns of a frame given to the column resolver
MaxRows == 2          \* data rows of the two disaster files together (loader runs)
MaxAppRows == 2       \* data rows of the two disaster files together (dashboard pass)
MaxTempRows == 1      \* data rows of the three temperature files together
MaxSummaryRows == 3   \* rows of a table given to compute_disaster_summary

\* app.py line 18
AppMinYear == 1970
AppMaxYear == 2022

\* a year inside both the pipeline's and the dashboard's range
SampleYear == AppMinYear + 30

EdgeYears == {MinYear - 1, MinYear, MaxYear, MaxYear + 1}

EmptyRaw == [names |-> <<>>, rows |-> <<>>]
EmptyTable == [cols |-> <<>>, rows |-> <<>>]

\* the tables with the given column names and exactly n rows drawn from rowSet
TablesOf(names, rowSet, n) ==
    {[names |-> names, rows |-> rs] : rs \in [1..n -> rowSet]}

(* frames for the column resolver *)
ResolverPool ==
    {N_Year, N_EventDate, N_Disaster_Subtype, N_Disaster_Type, N_disaster_type, N_Var5}

FiveVarNames == <<N_EventDate, N_Var2, N_Var3, N_Var4, N_Var5>>

DTypes == {"object", "number"}

FramesOver(names) ==
    {[i \in 1..Len(names) |-> [name |-> names[i], dtype |-> dts[i]]] :
        dts \in [1..Len(names) -> DTypes]}

DistinctNames(n) ==
    {f \in [1..n -> ResolverPool] : \A i, j \in 1..n : f[i] = f[j] => i = j}

ResolverFrames ==
    FramesOver(FiveVarNames)
    \cup UNION {FramesOver(names) : names \in UNION {DistinctNames(n) : n \in 1..MaxCols}}

(* disaster files for the loader runs; the files carry whole-number years *)
YearCells == {NaN} \cup {Num(y) : y \in EdgeYears}
TypeCells == {NaN, Text("Flood")}
DateCellsBesideYear == {Text("bad"), DateText(MinYear)}
DateCells == {Text("bad")} \cup {DateText(y) : y \in EdgeYears}

RowsWithYear == {<<y, dc, tc>> : y \in YearCells, dc \in DateCellsBesideYear, tc \in TypeCells}
RowsWithoutYear == {<<dc, tc>> : dc \in DateCells, tc \in TypeCells}

BarTables(n) ==
    UNION {TablesOf(<<N_Year, N_EventDate, tn>>, RowsWithYear, n)
           \cup TablesOf(<<N_EventDate, tn>>, RowsWithoutYear, n) :
           tn \in {N_Disaster_Type, N_Var5}}

ShreyTables(n) ==
    TablesOf(<<N_Year, N_Date, N_Disaster_Subtype>>, RowsWithYear, n)
    \cup TablesOf(<<N_Date, N_Disaster_Subtype>>, RowsWithoutYear, n)

(* files for the dashboard pass *)
AppBarTables(n) ==
    TablesOf(<<N_Year, N_EventDate, N_Disaster_Type>>,
             {<<y, DateText(SampleYear), Text("Flood")>> :
                 y \in {NaN, Num(MinYear - 1), Num(SampleYear), Num(MaxYear + 1)}},
             n)

AppShreyTables(n) ==
    TablesOf(<<N_Date, N_Disaster_Subtype>>,
             {<<dc, Text("Storm")>> :
                 dc \in {Text("bad"), DateText(MinYear), DateText(MaxYear),
                         DateText(MaxYear + 1)}},
             n)

GiaTables(n) ==
    TablesOf(<<"Year", "Average_Fahrenheit_Temperature">>,
             {<<NaN, Num(50)>>, <<Num(MinYear - 1), Num(50)>>, <<Num(MinYear), Num(50)>>,
              <<Num(SampleYear), NaN>>},
             n)

BerkTables(n) ==
    UNION {TablesOf(names,
                    {<<Text("bad"), Num(10)>>, <<DateText(SampleYear), Num(10)>>,
                     <<DateText(MaxYear), NaN>>, <<DateText(MaxYear), Num(20)>>},
                    n) :
           names \in {<<"dt", "LandAverageTemperature">>, <<"day", "celsius">>}}

JosepTables(n) ==
    TablesOf(<<"EventDate", "TemperatureFahrenheit">>,
             {<<Text("bad"), Num(60)>>, <<DateText(SampleYear), Text("n/a")>>,
              <<DateText(SampleYear), Num(60)>>, <<DateText(MaxYear + 1), Num(60)>>},
             n)

(* tables for compute_disaster_summary *)
SummaryCountCells == {NaN, Num(0), Num(1), Num(2), Num(4)}

SummaryTables ==
    UNION {
        {[cols |-> <<"year", "disaster_count">>,
          rows |-> [i \in 1..n |-> [year |-> AppMinYear + i, disaster_count |-> cs[i]]]] :
            cs \in [1..n -> SummaryCountCells]}
        \cup
        {[cols |-> <<"year", "TempF">>,
          rows |-> [i \in 1..n |-> [year |-> AppMinYear + i, TempF |-> Num(50)]]]} :
        n \in 0..MaxSummaryRows}

-----------------------------------------------------------------------------
(* Initial states *)

Idle ==
    /\ df = <<>>
    /\ type_col = <<>>
    /\ temps_annual = EmptyTable
    /\ disasters_all = EmptyTable
    /\ disasters_per_year = EmptyTable
    /\ app_disasters_per_year = EmptyTable
    /\ app_merged = EmptyTable
    /\ app_disasters_all = EmptyTable
    /\ summary_stats = <<>>
    /\ type_counts = <<>>

NoFiles ==
    /\ dis_bar = EmptyRaw
    /\ dis_shrey = EmptyRaw
    /\ temps_gia = EmptyRaw
    /\ temps_berk = EmptyRaw
    /\ temps_josep = EmptyRaw

\* the dashboard pass: the five files are on disk, nothing has run
Init ==
    /\ pc = "app_start"
    /\ Idle
    /\ merged = EmptyTable
    /\ \E nb \in 0..MaxAppRows : \E ns \in 0..(MaxAppRows - nb) :
          /\ dis_bar \in AppBarTables(nb)
          /\ dis_shrey \in AppShreyTables(ns)
    /\ \E ng \in 0..MaxTempRows : \E nk \in 0..(MaxTempRows - ng) :
       \E nj \in 0..(MaxTempRows - ng - nk) :
          /\ temps_gia \in GiaTables(ng)
          /\ temps_berk \in BerkTables(nk)
          /\ temps_josep \in JosepTables(nj)

\* a call of load_disaster_data on two disaster files
InitLoad ==
    /\ pc = "load_call"
    /\ Idle
    /\ merged = EmptyTable
    /\ temps_gia = EmptyRaw
    /\ temps_berk = EmptyRaw
    /\ temps_josep = EmptyRaw
    /\ \E nb \in 0..MaxRows : \E ns \in 0..(MaxRows - nb) :
          /\ dis_bar \in BarTables(nb)
          /\ dis_shrey \in ShreyTables(ns)

\* a call of _guess_disaster_type_column on a frame
InitResolver ==
    /\ pc = "resolver_call"
    /\ df \in ResolverFrames
    /\ type_col = <<>>
    /\ temps_annual = EmptyTable
    /\ disasters_all = EmptyTable
    /\ disasters_per_year = EmptyTable
    /\ app_disasters_per_year = EmptyTable
    /\ app_merged = EmptyTable
    /\ app_disasters_all = EmptyTable
    /\ summary_stats = <<>>
    /\ type_counts = <<>>
    /\ merged = EmptyTable
    /\ NoFiles

\* a call of compute_disaster_summary on a table
InitSummary ==
    /\ pc = "summary_call"
    /\ Idle
    /\ NoFiles
    /\ merged \in SummaryTables

-----------------------------------------------------------------------------
(* Actions *)

files == <<dis_bar, dis_shrey, temps_gia, temps_berk, temps_josep>>
resolver == <<df, type_col>>
app_names == <<app_disasters_per_year, app_merged, app_disasters_all>>

\* build_merged_dataset, lines 293-294: the two loaders run
BuildMergedDatasetLoad ==
    /\ pc = "app_start"
    /\ LET t == LoadTemperatureData(temps_gia, temps_berk, temps_josep)
           d == LoadDisasterData(dis_bar, dis_shrey)
       IN  /\ temps_annual' = t.temps_annual
           /\ disasters_all' = d.disasters_all
           /\ disasters_per_year' = d.disasters_per_year
    /\ pc' = "build_loaded"
    /\ UNCHANGED <<files, resolver, merged, app_names, summary_stats, type_counts>>

\* app.py line 15: the names the returned tuple is unpacked into, in order
AppUnpack(ret) ==
    [disasters_per_year |-> ret[1], merged |-> ret[2], disasters_all |-> ret[3]]

\* build_merged_dataset, lines 296-308, and the unpacking of app.py line 15
BuildMergedDatasetReturn ==
    /\ pc = "build_loaded"
    /\ LET ret == BuildMerged(temps_annual, disasters_per_year)
       IN  /\ temps_annual' = ret[1]
           /\ disasters_per_year' = ret[2]
           /\ merged' = ret[3]
           /\ app_disasters_per_year' = AppUnpack(ret).disasters_per_year
           /\ app_merged' = AppUnpack(ret).merged
           /\ app_disasters_all' = AppUnpack(ret).disasters_all
    /\ pc' = "app_built"
    /\ UNCHANGED <<files, resolver, disasters_all, summary_stats, type_counts>>

AppRowInRange(r) == r.year >= AppMinYear /\ r.year <= AppMaxYear

\* app.py line 18
AppFilterYears ==
    /\ pc = "app_built"
    /\ app_merged' = [app_merged EXCEPT !.rows = SelectSeq(app_merged.rows, AppRowInRange)]
    /\ pc' = "app_filtered"
    /\ UNCHANGED <<files, resolver, temps_annual, disasters_all, disasters_per_year,
                   merged, app_disasters_per_year, app_disasters_all, summary_stats,
                   type_counts>>

\* app.py line 21
AppComputeSummary ==
    /\ pc = "app_filtered"
    /\ IF SummaryRaises(app_merged)
       THEN pc' = "KeyError" /\ UNCHANGED summary_stats
       ELSE pc' = "app_summarized" /\ summary_stats' = ComputeDisasterSummary(app_merged)
    /\ UNCHANGED <<files, resolver, temps_annual, disasters_all, disasters_per_year,
                   merged, app_names, type_counts>>

\* app.py line 22; the rendering steps follow when it returns
AppTypeCounts ==
    /\ pc = "app_summarized"
    /\ IF TypeCountsRaises(app_disasters_all)
       THEN pc' = "KeyError" /\ UNCHANGED type_counts
       ELSE pc' = "app_render" /\ type_counts' \in TypeCountResults(app_disasters_all)
    /\ UNCHANGED <<files, resolver, temps_annual, disasters_all, disasters_per_year,
                   merged, app_names, summary_stats>>

\* load_disaster_data called on its own
CallLoadDisasterData ==
    /\ pc = "load_call"
    /\ LET d == LoadDisasterData(dis_bar, dis_shrey)
       IN  /\ disasters_all' = d.disasters_all
           /\ disasters_per_year' = d.disasters_per_year
    /\ pc' = "load_done"
    /\ UNCHANGED <<files, resolver, temps_annual, merged, app_names, summary_stats,
                   type_counts>>

\* disaster_type_counts called on the events table load_disaster_data returned
CallDisasterTypeCounts ==
    /\ pc = "load_done"
    /\ IF TypeCountsRaises(disasters_all)
       THEN pc' = "KeyError" /\ UNCHANGED type_counts
       ELSE pc' = "counted" /\ type_counts' \in TypeCountResults(disasters_all)
    /\ UNCHANGED <<files, resolver, temps_annual, disasters_all, disasters_per_year,
                   merged, app_names, summary_stats>>

\* _guess_disaster_type_column called on a frame
CallGuessDisasterTypeColumn ==
    /\ pc = "resolver_call"
    /\ type_col' = GuessDisasterTypeColumn(df)
    /\ pc' = "resolver_done"
    /\ UNCHANGED <<files, df, temps_annual, disasters_all, disasters_per_year, merged,
                   app_names, summary_stats, type_counts>>

\* compute_disaster_summary called on a table
CallComputeDisasterSummary ==
    /\ pc = "summary_call"
    /\ IF SummaryRaises(merged)
       THEN pc' = "KeyError" /\ UNCHANGED summary_stats
       ELSE pc' = "summary_done" /\ summary_stats' = ComputeDisasterSummary(merged)
    /\ UNCHANGED <<files, resolver, temps_annual, disasters_all, disasters_per_year,
                   merged, app_names, type_counts>>

-----------------------------------------------------------------------------
(* Specifications *)

Next ==
    \/ BuildMergedDatasetLoad
    \/ BuildMergedDatasetReturn
    \/ AppFilterYears
    \/ AppComputeSummary
    \/ AppTypeCounts

Spec == Init /\ [][Next]_vars

NextLoad == CallLoadDisasterData \/ CallDisasterTypeCounts

SpecLoad == InitLoad /\ [][NextLoad]_vars

NextResolver == CallGuessDisasterTypeColumn

SpecResolver == InitResolver /\ [][NextResolver]_vars

NextSummary == CallComputeDisasterSummary

SpecSummary == InitSummary /\ [][NextSummary]_vars

-----------------------------------------------------------------------------
(* Properties *)

LoadDone == pc \in {"load_done", "counted"}

Loaded == pc \in {"build_loaded", "app_built", "app_filtered", "app_summarized",
                  "app_render", "KeyError"}

Built == pc \in {"app_built", "app_filtered", "app_summarized", "app_render", "KeyError"}

RECURSIVE SumOfCounts(_)
SumOfCounts(rows) ==
    IF rows = <<>> THEN 0 ELSE Head(rows).disaster_count.n + SumOfCounts(Tail(rows))

RowsOfYear(t, y) == {i \in 1..Len(t.rows) : t.rows[i].year = y}

RowsFrom(t, tag) == {i \in 1..Len(t.rows) : t.rows[i].source = tag}

\* the text of a cell is a date that can be parsed
Parseable(c) == c.k = "str" /\ c.s = "date"

\* the file of a source tag, and the name of its date column
FileOf(tag) == IF tag = "Baris_Dincer" THEN dis_bar ELSE dis_shrey
DateNameOf(tag) == IF tag = "Baris_Dincer" THEN N_EventDate ELSE N_Date
Tags == {"Baris_Dincer", "Shreyansh_Dangi"}

\* the rows of a file whose date cell can be parsed
ParseableRows(tag) ==
    {j \in 1..Len(FileOf(tag).rows) :
        Parseable(CellOf(FileOf(tag), FileOf(tag).rows[j], DateNameOf(tag)))}

\* C1: the per-year counts add up to the number of retained events, and each
\* year's count is the number of retained events of that year.
C1_CountConservation ==
    LoadDone =>
        /\ SumOfCounts(disasters_per_year.rows) = Len(disasters_all.rows)
        /\ \A i \in 1..Len(disasters_per_year.rows) :
              disasters_per_year.rows[i].disaster_count
                 = Num(Cardinality(RowsOfYear(disasters_all, disasters_per_year.rows[i].year)))
        /\ \A j \in 1..Len(disasters_all.rows) :
              Cardinality(RowsOfYear(disasters_per_year, disasters_all.rows[j].year)) = 1

C1_Witness ==
    /\ LoadDone
    /\ Len(disasters_all.rows) >= 2
    /\ \E i \in 1..Len(disasters_per_year.rows) :
          disasters_per_year.rows[i].disaster_count.n >= 2

\* the merged table holds every year of either annual table exactly once, with
\* the values of the tables that have the year, absent temperatures staying
\* absent, and absent counts being `fill`
MergedIsOuterJoin(fill) ==
    /\ YearsOf(merged) = YearsOf(temps_annual) \cup YearsOf(disasters_per_year)
    /\ \A i, j \in 1..Len(merged.rows) :
          merged.rows[i].year = merged.rows[j].year => i = j
    /\ \A i \in 1..Len(merged.rows) :
          LET r == merged.rows[i] IN
          /\ r.TempF = IF r.year \in YearsOf(temps_annual)
                       THEN RowOfYear(temps_annual, r.year).TempF
                       ELSE NaN
          /\ r.disaster_count = IF r.year \in YearsOf(disasters_per_year)
                                THEN RowOfYear(disasters_per_year, r.year).disaster_count
                                ELSE fill

\* C2 as stated: the merged table is the full outer join on year; a year with a
\* temperature but no disaster rows gets disaster_count = 0; a year without a
\* temperature keeps TempF absent.
C2_OuterJoinFillsZero == Built => MergedIsOuterJoin(Num(0))

\* C2 as amended: the merged table is the full outer join on year; a year with
\* a temperature but no disaster rows keeps disaster_count absent, and a year
\* without a temperature keeps TempF absent.
C2_OuterJoinKeepsAbsent == Built => MergedIsOuterJoin(NaN)

C2_Witness ==
    /\ Built
    /\ \E y \in YearsOf(merged) : y \notin YearsOf(disasters_per_year)
    /\ \E y \in YearsOf(merged) : y \notin YearsOf(temps_annual)

\* no retained event of the source lacks its event_date, the source has no
\* more retained events than rows whose date can be parsed, and the yearly
\* counts count retained events only
BadDatesDropped(tag) ==
    /\ \A i \in RowsFrom(disasters_all, tag) : disasters_all.rows[i].event_date.k = "dt"
    /\ Cardinality(RowsFrom(disasters_all, tag)) <= Cardinality(ParseableRows(tag))
    /\ SumOfCounts(disasters_per_year.rows) = Len(disasters_all.rows)

\* C3 as stated: for either source, with or without a Year column, a row whose
\* date cannot be parsed is not in disasters_all and is counted in no year.
C3_BadDateRowsDropped ==
    LoadDone => \A tag \in Tags : BadDatesDropped(tag)

\* C3 as amended: for a source file without a Year column, a row whose date
\* cannot be parsed is not in disasters_all and is counted in no year.
C3_BadDateRowsDroppedWithoutYearColumn ==
    LoadDone => \A tag \in Tags : ~HasCol(FileOf(tag), N_Year) => BadDatesDropped(tag)

C3_Witness ==
    /\ LoadDone
    /\ \E tag \in Tags :
          /\ ~HasCol(FileOf(tag), N_Year)
          /\ Len(FileOf(tag).rows) = 2
          /\ Cardinality(ParseableRows(tag)) = 1
          /\ Cardinality(RowsFrom(disasters_all, tag)) = 1

\* a label that stands for a missing value
MissingLabel(c) == c \in {Text("nan"), Text("NaT"), NaN, NaT}

\* the rows of a file whose cell in the resolved type column is present
TypedRows(tag) ==
    {j \in 1..Len(FileOf(tag).rows) :
        ~IsNA(TypeCell(FileOf(tag), FileOf(tag).rows[j], DateNameOf(tag)))}

\* C4: a source row whose disaster-type value is missing is dropped: no
\* retained event carries a label that stands for a missing value, no source
\* has more retained events than rows with a type, and disaster_type_counts
\* has no entry for a missing label.
C4_MissingTypeRowsDropped ==
    /\ LoadDone =>
          /\ \A i \in 1..Len(disasters_all.rows) :
                ~MissingLabel(disasters_all.rows[i].disaster_type)
          /\ \A tag \in Tags :
                Cardinality(RowsFrom(disasters_all, tag)) <= Cardinality(TypedRows(tag))
    /\ pc = "counted" =>
          \A i \in 1..Len(type_counts) : ~MissingLabel(type_counts[i].disaster_type)

\* every retained event of the source that has an event_date has its year
YearIsDateYear(tag) ==
    \A i \in RowsFrom(disasters_all, tag) :
        disasters_all.rows[i].event_date.k = "dt"
            => disasters_all.rows[i].year = disasters_all.rows[i].event_date.n

\* C5 as stated: every retained event that has an event_date has the calendar
\* year of that date as its year, also when the file has its own Year column.
C5_YearMatchesEventDate ==
    LoadDone => \A tag \in Tags : YearIsDateYear(tag)

\* C5 as amended: every retained event that has an event_date and comes from a
\* file without a Year column has the calendar year of that date as its year.
C5_YearMatchesEventDateWithoutYearColumn ==
    LoadDone => \A tag \in Tags : ~HasCol(FileOf(tag), N_Year) => YearIsDateYear(tag)

C5_Witness ==
    /\ LoadDone
    /\ \E i \in 1..Len(disasters_all.rows) :
          /\ ~HasCol(FileOf(disasters_all.rows[i].source), N_Year)
          /\ disasters_all.rows[i].event_date.k = "dt"

ValidYears == MinYear..MaxYear

\* the years the rows of the disaster files carry (from the Year column, or
\* from the date when there is none)
SourceDisasterYears(tag) ==
    LET t == FileOf(tag)
        Y(j) == YearAndDate(t, t.rows[j], DateNameOf(tag)).year
    IN  [j \in 1..Len(t.rows) |-> Y(j)]

\* the number of rows of the disaster files that carry year y
SourceDisasterRows(y) ==
    LET N(tag) == Cardinality({j \in 1..Len(FileOf(tag).rows) :
                                  SourceDisasterYears(tag)[j] = Num(y)})
    IN  N("Baris_Dincer") + N("Shreyansh_Dangi")

\* the years the rows of the temperature files carry
SourceTempYears ==
    LET rows == StdGia(temps_gia) \o StdBerk(temps_berk) \o StdJosep(temps_josep)
    IN  {rows[i].year.n : i \in {j \in 1..Len(rows) : rows[j].year.k = "num"}}

HasObjectCol(frame, name) ==
    \E i \in 1..Len(frame) : frame[i].name = name /\ frame[i].dtype = "object"

HasName(frame, name) == \E i \in 1..Len(frame) : frame[i].name = name

\* C7 as stated: with a string column Disaster_Subtype and a column
\* Disaster_Type, the resolver returns Disaster_Subtype, whatever the order.
C7_SubtypePreferred ==
    (/\ pc = "resolver_done"
     /\ HasObjectCol(df, N_Disaster_Subtype)
     /\ HasName(df, N_Disaster_Type))
        => type_col = N_Disaster_Subtype

\* C7 as amended: with a string column Disaster_Subtype and a column
\* Disaster_Type, and no column named disaster_type or DisasterType, the
\* resolver returns Disaster_Type, whatever the order of the columns.
C7_TypeAliasPreferred ==
    (/\ pc = "resolver_done"
     /\ HasObjectCol(df, N_Disaster_Subtype)
     /\ HasName(df, N_Disaster_Type)
     /\ ~HasName(df, N_disaster_type)
     /\ ~HasName(df, N_DisasterType))
        => type_col = N_Disaster_Type

C7_Witness ==
    /\ pc = "resolver_done"
    /\ Len(df) >= 2
    /\ df[1] = [name |-> N_Disaster_Subtype, dtype |-> "object"]
    /\ df[2].name = N_Disaster_Type
    /\ ~HasName(df, N_disaster_type)

\* C8 as stated: for the columns EventDate, Var2, Var3, Var4, Var5 the resolver
\* returns Var5 for every assignment of string or numeric type to the columns.
C8_FiveVarLastColumn ==
    (pc = "resolver_done" /\ ColumnNames(df) = FiveVarNames) => type_col = N_Var5

\* C8 as amended: for the columns EventDate, Var2, Var3, Var4, Var5 the
\* resolver returns the first of Var2..Var5 that is a string column, and Var5
\* when none of them is.
C8_FiveVarFirstStringColumn ==
    (pc = "resolver_done" /\ ColumnNames(df) = FiveVarNames) =>
        LET strings == {i \in 2..5 : df[i].dtype = "object"}
        IN  IF strings = {} THEN type_col = N_Var5
            ELSE \E i \in strings :
                    /\ type_col = df[i].name
                    /\ \A j \in strings : i <= j

C8_Witness ==
    /\ pc = "resolver_done"
    /\ ColumnNames(df) = FiveVarNames
    /\ df[2].dtype = "number"
    /\ type_col = N_Var3

\* C9: on a table that has a disaster_count column with no present value (no
\* row, or absent counts only) compute_disaster_summary does not raise and
\* returns the six-field record with every field 0.
C9_EmptySummaryAllZero ==
    (/\ pc # "summary_call"
     /\ "disaster_count" \in Range(merged.cols)
     /\ \A i \in 1..Len(merged.rows) : IsNA(merged.rows[i].disaster_count))
        => /\ pc = "summary_done"
           /\ DOMAIN summary_stats
                 = {"min", "max", "mean", "median", "std", "years_with_data"}
           /\ \A f \in {"min", "max", "mean", "median", "std"} : summary_stats[f] = Num(0)
           /\ summary_stats.years_with_data = 0

C9_Witness ==
    /\ pc = "summary_done"
    /\ Len(merged.rows) >= 2
    /\ \A i \in 1..Len(merged.rows) : IsNA(merged.rows[i].disaster_count)

\* C10: in the dashboard pass each unpacked table is bound to the role it is
\* used in (the table given to compute_disaster_summary has a disaster_count
\* column, the table given to disaster_type_counts is the events table with a
\* disaster_type column), and the pass reaches the rendering steps without a
\* KeyError.
C10_AppReachesRendering ==
    /\ Built =>
          /\ "disaster_count" \in Range(app_merged.cols)
          /\ "disaster_type" \in Range(app_disasters_all.cols)
          /\ app_disasters_all = disasters_all
    /\ pc # "KeyError"

====
